---- MODULE Spec2Model ----
(***************************************************************************)
(* Model of asdl/lang/c/c_utils.py: the terminal mapping tables, the       *)
(* subword reassembly spm_decode, the ASTConverter encoder and decoder,    *)
(* and the lru_cache of converter instances.                               *)
(*                                                                         *)
(* Python values are tagged records:                                       *)
(*   None                 [k |-> "None"]                                   *)
(*   identifier/string    [k |-> "str",  s |-> <<characters>>]             *)
(*   native terminal      [k |-> "tok",  t |-> "const"]                    *)
(*   list                 [k |-> "list", items |-> <<values>>]             *)
(*   native AST node      [k |-> "node", ctor |-> name, attrs |-> record]  *)
(*   grammar tree         [k |-> "asdl", prod |-> name, fields |-> <<..>>] *)
(*   raised exception     [k |-> "raise", err |-> name]                    *)
(* A character is a one-letter string; "M" stands for the marker U+2581.   *)
(***************************************************************************)
EXTENDS Integers, Sequences, FiniteSets, TLC

VARIABLES
    tokens,       \* spm_decode: the piece list passed in
    spm_result,   \* spm_decode: the returned word list, or the exception
    group,        \* terminal tables: the field type name looked up
    native_tok,   \* terminal tables: the native token looked up
    ctr_name,     \* terminal tables: result of the forward lookup
    back_tok,     \* terminal tables: result of the reverse lookup
    ast_node,     \* converter: the caller's native AST (input of encode)
    sp,           \* converter: the instance's subword model, or None
    asdl_node,    \* converter: the grammar tree (encode output, decode input)
    c_node,       \* converter: the decoded native AST, or the exception
    cache,        \* lru_cache: cached instances, least recently used first
    last_call,    \* lru_cache: what the latest _get_converter_instance did
    grammars,     \* callers: how many grammar objects have been used so far
    calls         \* callers: how many module-level calls have been made

vars == <<tokens, spm_result, group, native_tok, ctr_name, back_tok,
          ast_node, sp, asdl_node, c_node, cache, last_call, grammars, calls>>

spm_vars == <<tokens, spm_result>>
tbl_vars == <<group, native_tok, ctr_name, back_tok>>
conv_vars == <<ast_node, sp, asdl_node, c_node>>
cache_vars == <<cache, last_call, grammars, calls>>

None == [k |-> "None"]
Unset == [k |-> "unset"]
Str(chars) == [k |-> "str", s |-> chars]
Tok(t) == [k |-> "tok", t |-> t]
List(items) == [k |-> "list", items |-> items]
Raise(err) == [k |-> "raise", err |-> err]
Ok(v) == [k |-> "ok", v |-> v]

IsRaise(r) == r.k = "raise"

-----------------------------------------------------------------------------
(* Terminal mapping tables.  A dict is the sequence of its items in        *)
(* insertion order.                                                        *)

HasKey(d, key) == \E i \in 1..Len(d) : d[i][1] = key

\* dict lookup; a later item with the same key overrides an earlier one
DictGet(d, key) ==
    LET last == CHOOSE i \in 1..Len(d) :
                    /\ d[i][1] = key
                    /\ \A j \in (i+1)..Len(d) : d[j][1] # key
    IN d[last][2]

C_TO_ASDL_TERMINAL_MAP ==
    [ QUAL |-> << <<"const", "Const">>, <<"volatile", "Volatile">>,
                  <<"restrict", "Restrict">> >>,
      DIM_QUAL |-> << <<"const", "ConstDim">>, <<"volatile", "VolatileDim">>,
                      <<"restrict", "RestrictDim">>, <<"static", "StaticDim">> >>,
      STORAGE |-> << <<"extern", "Extern">>, <<"static", "Static">>,
                     <<"register", "Register">>, <<"auto", "Auto">>,
                     <<"typedef", "TypedefStorage">> >>,
      FUNCSPEC |-> << <<"inline", "Inline">> >>,
      REF_TYPE |-> << <<"->", "Arrow">>, <<".", "Dot">> >>,
      ASSIGN_OPER |-> << <<"=", "NormalAssign">>, <<"+=", "AddAssign">>,
                         <<"-=", "SubAssign">>, <<"*=", "MulAssign">>,
                         <<"/=", "DivAssign">>, <<"%=", "ModAssign">>,
                         <<"&=", "BitAndAssign">>, <<"|=", "BitOrAssign">>,
                         <<"^=", "BitXorAssign">>, <<"<<=", "LShiftAssign">>,
                         <<">>=", "RShiftAssign">> >>,
      UNARY_OP |-> << <<"+", "UAdd">>, <<"-", "USub">>, <<"p++", "PreInc">>,
                      <<"++", "PostInc">>, <<"p--", "PreDec">>,
                      <<"--", "PostDec">>, <<"!", "Not">>, <<"~", "BitNot">>,
                      <<"*", "Deref">>, <<"sizeof", "SizeOf">>,
                      <<"&", "AddressOf">> >>,
      BINARY_OP |-> << <<"=", "Assign">>, <<"+", "Add">>, <<"-", "Sub">>,
                       <<"*", "Mul">>, <<"/", "Div">>, <<"%", "Mod">>,
                       <<"==", "Eq">>, <<"!=", "NotEq">>, <<"<", "Lt">>,
                       <<"<=", "LtE">>, <<">", "Gt">>, <<">=", "GtE">>,
                       <<"&&", "And">>, <<"||", "Or">>, <<"&", "BitAnd">>,
                       <<"|", "BitOr">>, <<"^", "BitXor">>,
                       <<"<<", "LShift">>, <<">>", "RShift">> >>,
      LITERAL_TYPE |-> << <<"int", "IntLiteral">>, <<"long int", "IntLiteral">>,
                          <<"long long int", "IntLiteral">>,
                          <<"unsigned int", "IntLiteral">>,
                          <<"unsigned long int", "IntLiteral">>,
                          <<"unsigned long long int", "IntLiteral">>,
                          <<"float", "FloatLiteral">>,
                          <<"double", "FloatLiteral">>,
                          <<"long double", "FloatLiteral">>,
                          <<"char", "CharLiteral">>,
                          <<"string", "StringLiteral">> >> ]

TerminalGroups == DOMAIN C_TO_ASDL_TERMINAL_MAP

\* the comprehension with key and value not exchanged
InvertDict_NoSwap(tok_map) ==
    [i \in 1..Len(tok_map) |-> <<tok_map[i][1], tok_map[i][2]>>]

\* {typ: tok for tok, typ in tok_map.items()}
InvertDict(tok_map) ==
    [i \in 1..Len(tok_map) |-> <<tok_map[i][2], tok_map[i][1]>>]

LiteralTypeReverse ==
    << <<"IntLiteral", "int">>, <<"FloatLiteral", "double">>,
       <<"CharLiteral", "char">>, <<"StringLiteral", "string">> >>

ASDL_TO_C_TERMINAL_MAP ==
    [key \in TerminalGroups |->
        IF key = "LITERAL_TYPE" THEN LiteralTypeReverse
        ELSE InvertDict(C_TO_ASDL_TERMINAL_MAP[key])]

-----------------------------------------------------------------------------
(* Subword reassembly.                                                     *)

SPM_BOS_TOKEN == "M"

RECURSIVE JoinStr(_)
\* ''.join(pieces)
JoinStr(pieces) ==
    IF pieces = <<>> THEN <<>> ELSE Head(pieces) \o JoinStr(Tail(pieces))

RECURSIVE spm_loop_KeepMarker(_, _, _, _)
\* spm_decode with `pieces = [t]` for `pieces = [t[1:]]`
spm_loop_KeepMarker(toks, i, words, pieces) ==
    IF i > Len(toks)
    THEN Ok(IF Len(pieces) > 0 THEN Append(words, JoinStr(pieces)) ELSE words)
    ELSE LET t == toks[i] IN
         IF Len(t) = 0 THEN Raise("IndexError")
         ELSE IF t[1] = SPM_BOS_TOKEN
              THEN spm_loop_KeepMarker(toks, i + 1,
                            IF Len(pieces) > 0
                            THEN Append(words, JoinStr(pieces)) ELSE words,
                            <<t>>)
              ELSE spm_loop_KeepMarker(toks, i + 1, words, Append(pieces, t))

RECURSIVE spm_loop_NoFlush(_, _, _, _)
\* spm_decode without the flush after the loop
spm_loop_NoFlush(toks, i, words, pieces) ==
    IF i > Len(toks)
    THEN Ok(words)
    ELSE LET t == toks[i] IN
         IF Len(t) = 0 THEN Raise("IndexError")
         ELSE IF t[1] = SPM_BOS_TOKEN
              THEN spm_loop_NoFlush(toks, i + 1,
                            IF Len(pieces) > 0
                            THEN Append(words, JoinStr(pieces)) ELSE words,
                            <<Tail(t)>>)
              ELSE spm_loop_NoFlush(toks, i + 1, words, Append(pieces, t))

RECURSIVE spm_loop(_, _, _, _)
\* the for loop of spm_decode from token i on, then the final flush
spm_loop(toks, i, words, pieces) ==
    IF i > Len(toks)
    THEN Ok(IF Len(pieces) > 0 THEN Append(words, JoinStr(pieces)) ELSE words)
    ELSE LET t == toks[i] IN
         IF Len(t) = 0 THEN Raise("IndexError")  \* t[0] of the empty string
         ELSE IF t[1] = SPM_BOS_TOKEN
              THEN spm_loop(toks, i + 1,
                            IF Len(pieces) > 0
                            THEN Append(words, JoinStr(pieces)) ELSE words,
                            <<Tail(t)>>)
              ELSE spm_loop(toks, i + 1, words, Append(pieces, t))

spm_decode(toks) == spm_loop(toks, 1, <<>>, <<>>)

-----------------------------------------------------------------------------
(* Inputs of spm_decode: every list of at most MaxPieces pieces, a piece   *)
(* being any string of at most MaxPieceLen characters over PieceChars      *)
(* (the empty string and the marker alone included), and the list          *)
(* ["Mfoo", "bar", "Mbaz"].                                                *)

MaxPieces == 3
MaxPieceLen == 2
PieceChars == {SPM_BOS_TOKEN, "a"}

SeqsUpTo(S, n) == UNION {[1..m -> S] : m \in 0..n}

PieceStrings == SeqsUpTo(PieceChars, MaxPieceLen)

FooBarBaz == << <<"M", "f", "o", "o">>, <<"b", "a", "r">>,
                <<"M", "b", "a", "z">> >>

PieceLists == SeqsUpTo(PieceStrings, MaxPieces) \cup {FooBarBaz}

IdleSpm == tokens = <<>> /\ spm_result = Unset
IdleTbl == group = "" /\ native_tok = "" /\ ctr_name = Unset /\ back_tok = Unset
IdleConv == ast_node = Unset /\ sp = None /\ asdl_node = Unset /\ c_node = Unset
IdleCache == cache = <<>> /\ last_call = Unset /\ grammars = 0 /\ calls = 0

InitSpm ==
    /\ tokens \in PieceLists
    /\ spm_result = Unset
    /\ IdleTbl /\ IdleConv /\ IdleCache

\* one call spm_decode(tokens)
SpmDecodeCall ==
    /\ spm_result = Unset
    /\ spm_result' = spm_decode(tokens)
    /\ UNCHANGED <<tokens, tbl_vars, conv_vars, cache_vars>>

NextSpm == SpmDecodeCall

SpecSpm == InitSpm /\ [][NextSpm]_vars

-----------------------------------------------------------------------------
(* Claims about spm_decode.                                                *)

Marked(t) == Len(t) > 0 /\ t[1] = SPM_BOS_TOKEN
Strip(t) == IF Marked(t) THEN Tail(t) ELSE t
NoEmptyPiece(toks) == \A i \in 1..Len(toks) : Len(toks[i]) > 0

RECURSIVE ScanWords(_)
\* The words of a piece list, from the right: a piece opens a word of its
\* own when it is the last piece or the next piece is marked, and otherwise
\* is put in front of the word the next piece belongs to.
ScanWords(toks) ==
    IF toks = <<>> THEN <<>>
    ELSE LET t == Head(toks)
             rest == ScanWords(Tail(toks))
         IN IF Tail(toks) # <<>> /\ ~Marked(Head(Tail(toks)))
            THEN <<Strip(t) \o Head(rest)>> \o Tail(rest)
            ELSE <<Strip(t)>> \o rest

C8_SpmDecodeTotal == spm_result # Unset => ~IsRaise(spm_result)

-----------------------------------------------------------------------------
(* Terminal lookups: the forward lookup of the encoder followed by the     *)
(* reverse lookup of the decoder, for every group and every token of any   *)
(* table (a token of one group is an absent key in most other groups).     *)

TableTokens(key) ==
    {C_TO_ASDL_TERMINAL_MAP[key][i][1] :
        i \in 1..Len(C_TO_ASDL_TERMINAL_MAP[key])}

AllNativeTokens == UNION {TableTokens(key) : key \in TerminalGroups}

InitTbl ==
    /\ group \in TerminalGroups
    /\ native_tok \in AllNativeTokens
    /\ ctr_name = Unset
    /\ back_tok = Unset
    /\ IdleSpm /\ IdleConv /\ IdleCache

\* candidate_ctrs = C_TO_ASDL_TERMINAL_MAP[field.type.name]; candidate_ctrs[val]
ForwardLookup ==
    /\ ctr_name = Unset
    /\ ctr_name' = IF HasKey(C_TO_ASDL_TERMINAL_MAP[group], native_tok)
                   THEN Ok(DictGet(C_TO_ASDL_TERMINAL_MAP[group], native_tok))
                   ELSE Raise("KeyError")
    /\ UNCHANGED <<group, native_tok, back_tok, spm_vars, conv_vars, cache_vars>>

\* candidate_tokens = ASDL_TO_C_TERMINAL_MAP[field.type.name]; candidate_tokens[name]
ReverseLookup ==
    /\ ctr_name # Unset /\ ~IsRaise(ctr_name)
    /\ back_tok = Unset
    /\ back_tok' = IF HasKey(ASDL_TO_C_TERMINAL_MAP[group], ctr_name.v)
                   THEN Ok(DictGet(ASDL_TO_C_TERMINAL_MAP[group], ctr_name.v))
                   ELSE Raise("KeyError")
    /\ UNCHANGED <<group, native_tok, ctr_name, spm_vars, conv_vars, cache_vars>>

NextTbl == ForwardLookup \/ ReverseLookup

SpecTbl == InitTbl /\ [][NextTbl]_vars

\* C6: in every group but LITERAL_TYPE, mapping a native token of the
\* forward table to its constructor name and back gives the token again,
\* and no other token of the group has the same constructor name.
C6_TerminalBijection ==
    (/\ group # "LITERAL_TYPE"
     /\ HasKey(C_TO_ASDL_TERMINAL_MAP[group], native_tok)
     /\ back_tok # Unset) =>
        /\ back_tok = Ok(native_tok)
        /\ \A i \in 1..Len(C_TO_ASDL_TERMINAL_MAP[group]) :
               C_TO_ASDL_TERMINAL_MAP[group][i][2] = ctr_name.v =>
                   C_TO_ASDL_TERMINAL_MAP[group][i][1] = native_tok

C6_Witness ==
    /\ group = "UNARY_OP" /\ native_tok = "p++"
    /\ ctr_name = Ok("PreInc") /\ back_tok = Ok("p++")

-----------------------------------------------------------------------------
(* The grammar and the grammar-typed tree model.                           *)

Field(name, type, cardinality) ==
    [name |-> name, type |-> type, cardinality |-> cardinality]

\* the composite productions of the grammar, by constructor name
CompositeProductions ==
    [ ID |-> << Field("name", "IDENT", "single") >>,
      Constant |-> << Field("type", "LITERAL_TYPE", "single"),
                      Field("value", "STR", "single") >>,
      UnaryOp |-> << Field("op", "UNARY_OP", "single"),
                     Field("expr", "EXPR", "single") >>,
      Return |-> << Field("expr", "EXPR", "optional") >>,
      Compound |-> << Field("block_items", "EXPR", "multiple") >>,
      TypeDecl |-> << Field("declname", "IDENT", "optional"),
                      Field("quals", "QUAL", "multiple") >> ]

\* the four leaf productions; all have the one field `token`
TokenProductionNames == {"IdentToken", "StrToken", "IdentSubword", "StrSubword"}
TokenFields == << Field("token", "TOKEN", "single") >>

\* the zero-field productions, one per constructor name of the tables
TerminalProductionNames ==
    UNION {{C_TO_ASDL_TERMINAL_MAP[key][i][2] :
                i \in 1..Len(C_TO_ASDL_TERMINAL_MAP[key])} :
           key \in TerminalGroups}

HasProduction(name) ==
    \/ name \in DOMAIN CompositeProductions
    \/ name \in TokenProductionNames
    \/ name \in TerminalProductionNames

\* grammar.get_prod_by_ctr_name(name).fields, for a name the grammar has
ProductionFields(name) ==
    IF name \in DOMAIN CompositeProductions THEN CompositeProductions[name]
    ELSE IF name \in TokenProductionNames THEN TokenFields
    ELSE <<>>

\* the pycparser node classes; Pragma has no production in the grammar
AVAILABLE_NODES == DOMAIN CompositeProductions \cup {"Pragma"}

\* RealizedField(field): no value yet
RealizedField(field) ==
    [name |-> field.name, type |-> field.type,
     cardinality |-> field.cardinality, values |-> <<>>]

\* RealizedField.add_value
add_value(rf, value) ==
    [rf EXCEPT !.values = IF rf.cardinality = "multiple"
                          THEN Append(rf.values, value) ELSE <<value>>]

\* `rf.value is None`: a 'multiple' field holds a list, never None
value_is_none(rf) == rf.cardinality # "multiple" /\ rf.values = <<>>

\* RealizedField.as_value_list
as_value_list(rf) == rf.values

\* rf.value of a field that is not 'multiple' and holds a value
field_value_of(rf) == rf.values[1]

\* AbstractSyntaxTree(production, realized_fields)
AbstractSyntaxTree(prod, realized_fields) ==
    [k |-> "asdl", prod |-> prod,
     fields |-> IF realized_fields # <<>> THEN realized_fields
                ELSE [i \in 1..Len(ProductionFields(prod)) |->
                          RealizedField(ProductionFields(prod)[i])]]

Pieces(items) == [k |-> "pieces", items |-> items]

-----------------------------------------------------------------------------
(* The subword model.  A configured model is [str, seg]: it segments the   *)
(* string `str` into `seg` and any other string into its words, each one   *)
(* piece with the marker in front.                                         *)

RECURSIVE SplitWords(_, _)
\* the words of s: maximal runs of characters other than the space; cur is
\* the run being read
SplitWords(s, cur) ==
    IF s = <<>> THEN (IF cur = <<>> THEN <<>> ELSE <<cur>>)
    ELSE IF Head(s) = " "
         THEN (IF cur = <<>> THEN <<>> ELSE <<cur>>) \o SplitWords(Tail(s), <<>>)
         ELSE SplitWords(Tail(s), Append(cur, Head(s)))

WholeWordPieces(s) ==
    LET ws == SplitWords(s, <<>>)
    IN [i \in 1..Len(ws) |-> <<SPM_BOS_TOKEN>> \o ws[i]]

\* self.sp.EncodeAsPieces(val)
EncodeAsPieces(spm, val) ==
    Pieces(IF val.s = spm.str THEN spm.seg ELSE WholeWordPieces(val.s))

-----------------------------------------------------------------------------
(* ASTConverter.c_ast_to_asdl_ast.  The result is the grammar tree, or the *)
(* exception that ended the call.                                          *)

Node(ctor, attrs) == [k |-> "node", ctor |-> ctor, attrs |-> attrs]

_token_prods == [IDENT |-> "IdentToken", STR |-> "StrToken"]
_subword_prods == [IDENT |-> "IdentSubword", STR |-> "StrSubword"]
_token_field == TokenFields[1]

\* AbstractSyntaxTree(prod, realized_fields=[RealizedField(self._token_field, val)])
TokenLeaf(prod, val) ==
    AbstractSyntaxTree(prod, <<add_value(RealizedField(_token_field), val)>>)

RECURSIVE c_ast_to_asdl_ast(_, _)
RECURSIVE EncodeValues(_, _, _, _, _)
RECURSIVE EncodeFields(_, _, _, _, _)
RECURSIVE EncodeFields_NoAssert(_, _, _, _, _)

\* the loops over field_value (lines 215-217, 225-227, 230-231) from the
\* j-th value on; rf is asdl_field so far
EncodeValues(spm, field, vals, j, rf) ==
    IF j > Len(vals) THEN Ok(rf)
    ELSE LET val == vals[j] IN
         IF field.type = "EXPR"
         THEN LET child_node == c_ast_to_asdl_ast(spm, val)
              IN IF IsRaise(child_node) THEN child_node
                 ELSE EncodeValues(spm, field, vals, j + 1,
                                   add_value(rf, child_node))
         ELSE IF field.type \in {"IDENT", "STR"}
         THEN LET subtree ==
                    IF spm.k = "None"
                    THEN TokenLeaf(_token_prods[field.type], val)
                    ELSE TokenLeaf(_subword_prods[field.type],
                                   EncodeAsPieces(spm, val))
              IN EncodeValues(spm, field, vals, j + 1, add_value(rf, subtree))
         ELSE LET candidate_ctrs == C_TO_ASDL_TERMINAL_MAP[field.type]
              IN IF ~HasKey(candidate_ctrs, val.t) THEN Raise("KeyError")
                 ELSE IF ~HasProduction(DictGet(candidate_ctrs, val.t))
                      THEN Raise("KeyError")
                 ELSE EncodeValues(spm, field, vals, j + 1,
                          add_value(rf, AbstractSyntaxTree(
                              DictGet(candidate_ctrs, val.t), <<>>)))

\* the loop body without the check of line 233
EncodeFields_NoAssert(spm, node, prod_fields, i, fields) ==
    IF i > Len(prod_fields) THEN Ok(fields)
    ELSE LET field == prod_fields[i]
             field_value == node.attrs[field.name]
             asdl_field ==
                IF field_value.k = "None" THEN Ok(RealizedField(field))
                ELSE IF field.type \notin {"EXPR", "IDENT", "STR"}
                        /\ field.type \notin TerminalGroups
                     THEN Raise("KeyError")
                ELSE EncodeValues(spm, field,
                        IF field.cardinality # "multiple"
                        THEN <<field_value>> ELSE field_value.items,
                        1, RealizedField(field))
         IN IF IsRaise(asdl_field) THEN asdl_field
            ELSE EncodeFields_NoAssert(spm, node, prod_fields, i + 1,
                                       Append(fields, asdl_field.v))

\* the body of `for field in production.fields` for the i-th field on;
\* fields is the list built so far
EncodeFields(spm, node, prod_fields, i, fields) ==
    IF i > Len(prod_fields) THEN Ok(fields)
    ELSE LET field == prod_fields[i]
             field_value == node.attrs[field.name]
             asdl_field ==
                IF field_value.k = "None" THEN Ok(RealizedField(field))
                ELSE IF field.type \notin {"EXPR", "IDENT", "STR"}
                        /\ field.type \notin TerminalGroups
                     THEN Raise("KeyError")
                ELSE EncodeValues(spm, field,
                        IF field.cardinality # "multiple"
                        THEN <<field_value>> ELSE field_value.items,
                        1, RealizedField(field))
         IN IF IsRaise(asdl_field) THEN asdl_field
            ELSE IF field.cardinality # "optional" /\ value_is_none(asdl_field.v)
                 THEN Raise("AssertionError")
            ELSE EncodeFields(spm, node, prod_fields, i + 1,
                              Append(fields, asdl_field.v))

c_ast_to_asdl_ast(spm, node) ==
    IF ~HasProduction(node.ctor) THEN Raise("KeyError")
    ELSE LET fields == EncodeFields(spm, node, ProductionFields(node.ctor),
                                    1, <<>>)
         IN IF IsRaise(fields) THEN fields
            ELSE AbstractSyntaxTree(node.ctor, fields.v)

-----------------------------------------------------------------------------
(* ASTConverter.asdl_ast_to_c_ast.  The result is the native node, or the  *)
(* exception that ended the call.                                          *)

RECURSIVE JoinWords(_)
\* " ".join(words)
JoinWords(words) ==
    IF words = <<>> THEN <<>>
    ELSE IF Len(words) = 1 THEN words[1]
    ELSE words[1] \o <<" ">> \o JoinWords(Tail(words))

\* name.endswith("Token"), over the constructor names of the grammar
EndsWithToken(name) == name \in {"IdentToken", "StrToken"}

RECURSIVE asdl_ast_to_c_ast(_)
RECURSIVE DecodeValues(_, _, _, _)
RECURSIVE DecodeValues_Default(_, _, _, _)
RECURSIVE DecodeFields(_, _, _)

\* the loops over values with candidate_tokens.get(name, name) for
\* candidate_tokens[name]
DecodeValues_Default(field, values, j, field_value) ==
    IF j > Len(values) THEN Ok(field_value)
    ELSE LET val == values[j] IN
         IF field.type = "EXPR"
         THEN LET node == asdl_ast_to_c_ast(val)
              IN IF IsRaise(node) THEN node
                 ELSE DecodeValues_Default(field, values, j + 1,
                                           Append(field_value, node))
         ELSE IF field.type \in {"STR", "IDENT"}
         THEN IF EndsWithToken(val.prod)
              THEN DecodeValues_Default(field, values, j + 1,
                       Append(field_value, field_value_of(val.fields[1])))
              ELSE LET words == spm_decode(field_value_of(val.fields[1]).items)
                   IN IF IsRaise(words) THEN words
                      ELSE DecodeValues_Default(field, values, j + 1,
                               Append(field_value, Str(JoinWords(words.v))))
         ELSE LET candidate_tokens == ASDL_TO_C_TERMINAL_MAP[field.type]
              IN DecodeValues_Default(field, values, j + 1,
                     Append(field_value,
                            Tok(IF HasKey(candidate_tokens, val.prod)
                                THEN DictGet(candidate_tokens, val.prod)
                                ELSE val.prod)))

\* the loops over values (lines 249-251, 253-257, 260) from the j-th value
\* on; field_value is the list built so far
DecodeValues(field, values, j, field_value) ==
    IF j > Len(values) THEN Ok(field_value)
    ELSE LET val == values[j] IN
         IF field.type = "EXPR"
         THEN LET node == asdl_ast_to_c_ast(val)
              IN IF IsRaise(node) THEN node
                 ELSE DecodeValues(field, values, j + 1,
                                   Append(field_value, node))
         ELSE IF field.type \in {"STR", "IDENT"}
         THEN IF EndsWithToken(val.prod)
              THEN DecodeValues(field, values, j + 1,
                       Append(field_value, field_value_of(val.fields[1])))
              ELSE LET words == spm_decode(field_value_of(val.fields[1]).items)
                   IN IF IsRaise(words) THEN words
                      ELSE DecodeValues(field, values, j + 1,
                               Append(field_value, Str(JoinWords(words.v))))
         ELSE LET candidate_tokens == ASDL_TO_C_TERMINAL_MAP[field.type]
              IN IF ~HasKey(candidate_tokens, val.prod) THEN Raise("KeyError")
                 ELSE DecodeValues(field, values, j + 1,
                          Append(field_value,
                                 Tok(DictGet(candidate_tokens, val.prod))))

\* the reshaping with an 'optional' field without value left as []
Reshape_EmptyList(cardinality, field_value) ==
    IF cardinality = "single"
    THEN IF Len(field_value) = 1 THEN Ok(field_value[1])
         ELSE Raise("AssertionError")
    ELSE IF cardinality = "optional"
    THEN IF Len(field_value) > 1 THEN Raise("AssertionError")
         ELSE IF Len(field_value) = 1 THEN Ok(field_value[1])
         ELSE Ok(List(<<>>))
    ELSE Ok(List(field_value))

\* the reshaping without the assertion of line 266
Reshape_NoAssert(cardinality, field_value) ==
    IF cardinality = "single"
    THEN IF Len(field_value) = 1 THEN Ok(field_value[1])
         ELSE Raise("AssertionError")
    ELSE IF cardinality = "optional"
    THEN IF Len(field_value) >= 1 THEN Ok(field_value[1])
         ELSE Ok(None)
    ELSE Ok(List(field_value))

\* lines 262-270: the list of values reshaped by the cardinality
Reshape(cardinality, field_value) ==
    IF cardinality = "single"
    THEN IF Len(field_value) = 1 THEN Ok(field_value[1])
         ELSE Raise("AssertionError")
    ELSE IF cardinality = "optional"
    THEN IF Len(field_value) > 1 THEN Raise("AssertionError")
         ELSE IF Len(field_value) = 1 THEN Ok(field_value[1])
         ELSE Ok(None)
    ELSE Ok(List(field_value))

\* the body of `for field in asdl_node.fields` for the i-th field on; kwargs
\* is the list of (name, value) pairs so far
DecodeFields(fields, i, kwargs) ==
    IF i > Len(fields) THEN Ok(kwargs)
    ELSE LET field == fields[i]
             collected ==
                IF value_is_none(field) THEN Ok(<<>>)
                ELSE IF field.type \notin {"EXPR", "IDENT", "STR"}
                        /\ field.type \notin TerminalGroups
                     THEN Raise("KeyError")
                ELSE DecodeValues(field, as_value_list(field), 1, <<>>)
         IN IF IsRaise(collected) THEN collected
            ELSE LET shaped == Reshape(field.cardinality, collected.v)
                 IN IF IsRaise(shaped) THEN shaped
                    ELSE DecodeFields(fields, i + 1,
                             Append(kwargs, <<field.name, shaped.v>>))

\* klass(**kwargs)
Construct(klass, kwargs) ==
    Node(klass, [name \in {kwargs[i][1] : i \in 1..Len(kwargs)} |->
                    DictGet(kwargs, name)])

asdl_ast_to_c_ast(asdl) ==
    IF asdl.prod \notin AVAILABLE_NODES THEN Raise("KeyError")
    ELSE LET kwargs == DecodeFields(asdl.fields, 1, <<>>)
         IN IF IsRaise(kwargs) THEN kwargs
            ELSE Construct(asdl.prod, kwargs.v)

-----------------------------------------------------------------------------
(* Inputs of the converter.                                                *)

MaxNodes == 3      \* composite nodes in a native AST
MaxStrLen == 3     \* characters in an identifier given to a subword model

A == Str(<<"a">>)

QualLists ==
    {None, List(<<>>), List(<<Tok("const")>>),
     List(<<Tok("volatile"), Tok("const")>>), List(<<Tok("static")>>)}

\* native nodes without child nodes; "static" is no QUAL, "long" no
\* LITERAL_TYPE and "@" no UNARY_OP
LeafNodes ==
    {Node("ID", [name |-> v]) : v \in {A, None}}
    \cup {Node("Constant", [type |-> Tok(t), value |-> A]) :
            t \in {"int", "long int", "long"}}
    \cup {Node("TypeDecl", [declname |-> d, quals |-> q]) :
            d \in {A, None}, q \in QualLists}
    \cup {Node("Return", [expr |-> None])}
    \cup {Node("Compound", [block_items |-> b]) : b \in {None, List(<<>>)}}
    \cup {Node("UnaryOp", [op |-> Tok(o), expr |-> None]) : o \in {"-", "@"}}
    \cup {Node("Pragma", [string |-> A])}

RECURSIVE NodesOfSize(_)
RECURSIVE ChildLists(_)

\* the non-empty lists of nodes with m composite nodes in total
ChildLists(m) ==
    {<<c>> : c \in NodesOfSize(m)}
    \cup UNION {{<<c>> \o rest : c \in NodesOfSize(n),
                                 rest \in ChildLists(m - n)} :
                n \in 1..(m - 1)}

\* the native ASTs with exactly n composite nodes
NodesOfSize(n) ==
    IF n = 1 THEN LeafNodes
    ELSE {Node("UnaryOp", [op |-> Tok(o), expr |-> c]) :
             o \in {"-", "@"}, c \in NodesOfSize(n - 1)}
         \cup {Node("Return", [expr |-> c]) : c \in NodesOfSize(n - 1)}
         \cup {Node("Compound", [block_items |-> List(cs)]) :
                  cs \in ChildLists(n - 1)}

NativeASTs == UNION {NodesOfSize(n) : n \in 1..MaxNodes}

StrChars == {"a", " ", SPM_BOS_TOKEN}
Strings == SeqsUpTo(StrChars, MaxStrLen)

RECURSIVE Chunkings(_)
\* the ways to cut the word w into non-empty chunks
Chunkings(w) ==
    IF w = <<>> THEN {<<>>}
    ELSE UNION {{<<SubSeq(w, 1, n)>> \o rest :
                    rest \in Chunkings(SubSeq(w, n + 1, Len(w)))} :
                n \in 1..Len(w)}

\* the segmentations of one word: the marker is put in front of the first
\* chunk, or is a piece of its own before it
WordSegmentations(w) ==
    {<<<<SPM_BOS_TOKEN>> \o Head(c)>> \o Tail(c) : c \in Chunkings(w)}
    \cup {<<<<SPM_BOS_TOKEN>>>> \o c : c \in Chunkings(w)}

RECURSIVE WordsSegmentations(_)
WordsSegmentations(ws) ==
    IF ws = <<>> THEN {<<>>}
    ELSE {first \o rest : first \in WordSegmentations(Head(ws)),
                          rest \in WordsSegmentations(Tail(ws))}

\* what a subword model may return for the string s
Segmentations(s) == WordsSegmentations(SplitWords(s, <<>>))

SubwordModels(s) == {[k |-> "sp", str |-> s, seg |-> seg] : seg \in Segmentations(s)}

\* nodes holding the string s, and a subword model for s
SubwordInputs ==
    UNION {{<<n, m>> : n \in {Node("ID", [name |-> Str(s)]),
                              Node("Constant", [type |-> Tok("string"),
                                                value |-> Str(s)])},
                       m \in SubwordModels(s)} :
           s \in Strings}

EncodeInputs ==
    {<<n, m>> : n \in NativeASTs, m \in {None} \cup SubwordModels(<<"a">>)}
    \cup SubwordInputs

-----------------------------------------------------------------------------
(* Grammar trees handed to the decoder by a caller: well-formed and        *)
(* malformed ones, with up to MaxValues values on a field of any           *)
(* cardinality.                                                            *)

MaxValues == 2

WithValues(field, values) == [RealizedField(field) EXCEPT !.values = values]

Tree(prod, values_per_field) ==
    [k |-> "asdl", prod |-> prod,
     fields |-> [i \in 1..Len(values_per_field) |->
                    WithValues(ProductionFields(prod)[i], values_per_field[i])]]

Terminal(name) == AbstractSyntaxTree(name, <<>>)

LeafPieceLists ==
    {<<>>, << <<"M", "a">> >>, << <<"M", "a">>, <<"a">> >>, << <<"a">> >>,
     << <<"M", "a">>, <<"M", "a">> >>, << <<"M">>, <<"a">> >>,
     << <<"M", "a">>, <<>> >>}

IdentLeaves ==
    {TokenLeaf("IdentToken", A)}
    \cup {TokenLeaf("IdentSubword", Pieces(p)) : p \in LeafPieceLists}

IdentValueLists ==
    {<<>>, <<TokenLeaf("IdentToken", A), TokenLeaf("IdentToken", A)>>}
    \cup {<<l>> : l \in IdentLeaves}

\* "ConstDim" is no QUAL constructor and "Add" no UNARY_OP constructor
QualValueLists ==
    {<<>>, <<Terminal("Const")>>, <<Terminal("Volatile"), Terminal("Const")>>,
     <<Terminal("ConstDim")>>}

OpValueLists ==
    {<<>>, <<Terminal("USub")>>, <<Terminal("USub"), Terminal("Not")>>,
     <<Terminal("Add")>>}

ChildTrees == {Tree("ID", <<v>>) : v \in IdentValueLists}

ChildValueLists == SeqsUpTo(ChildTrees, MaxValues)

DecodeInputs ==
    ChildTrees
    \cup {Tree("TypeDecl", <<d, q>>) : d \in IdentValueLists, q \in QualValueLists}
    \cup {Tree("UnaryOp", <<o, e>>) : o \in OpValueLists, e \in ChildValueLists}
    \cup {Tree("Constant", <<<<Terminal(t)>>, <<TokenLeaf("StrToken", A)>>>>) :
            t \in {"IntLiteral", "FloatLiteral"}}
    \cup {Tree("Return", <<e>>) : e \in ChildValueLists}
    \cup {Tree("Compound", <<e>>) : e \in ChildValueLists}
    \cup {Terminal("Const")}

-----------------------------------------------------------------------------
(* The cache of converter instances: functools.lru_cache(maxsize=8) around *)
(* _get_converter_instance.  The cache is the list of its entries from the *)
(* least to the most recently used.                                        *)

CacheMaxSize == 8

\* ASTConverter(grammar, spm_model); every grammar has the four leaf
\* productions that __init__ looks up
ASTConverter(grammar, spm_model) ==
    IF \A name \in TokenProductionNames : HasProduction(name)
    THEN [grammar |-> grammar, sp |-> spm_model]
    ELSE Raise("KeyError")

CachedGrammars(c) == {c[i].key : i \in 1..Len(c)}

Without(c, g) == SelectSeq(c, LAMBDA e : e.key # g)

\* a cache in which a hit does not renew the entry (first in, first out)
_get_converter_instance_Fifo(c, grammar) ==
    IF grammar \in CachedGrammars(c)
    THEN LET entry == CHOOSE e \in {c[i] : i \in 1..Len(c)} : e.key = grammar
         IN [cache |-> c, result |-> entry.value, constructed |-> FALSE]
    ELSE LET instance == ASTConverter(grammar, None)
         IN IF "k" \in DOMAIN instance
            THEN [cache |-> c, result |-> instance, constructed |-> TRUE]
            ELSE [cache |-> Append(IF Len(c) >= CacheMaxSize THEN Tail(c) ELSE c,
                                   [key |-> grammar, value |-> instance]),
                  result |-> instance, constructed |-> TRUE]

\* one call _get_converter_instance(grammar): the cache afterwards, the
\* instance returned, and whether ASTConverter was constructed
_get_converter_instance(c, grammar) ==
    IF grammar \in CachedGrammars(c)
    THEN LET entry == CHOOSE e \in {c[i] : i \in 1..Len(c)} : e.key = grammar
         IN [cache |-> Append(Without(c, grammar), entry),
             result |-> entry.value, constructed |-> FALSE]
    ELSE LET instance == ASTConverter(grammar, None)
         IN IF "k" \in DOMAIN instance
            THEN [cache |-> c, result |-> instance, constructed |-> TRUE]
            ELSE [cache |-> Append(IF Len(c) >= CacheMaxSize THEN Tail(c) ELSE c,
                                   [key |-> grammar, value |-> instance]),
                  result |-> instance, constructed |-> TRUE]

-----------------------------------------------------------------------------
(* The converter: one conversion call after the other on the caller's      *)
(* input, through a converter instance or through the module-level         *)
(* functions.                                                              *)

NumGrammars == 9   \* grammar objects the callers use
MaxCalls == 12     \* module-level calls the callers make

\* The callers make one more module-level call, with the grammar object
\* `grammar`: one used before, or the next new one (grammar objects are
\* numbered in the order of their first use).
CallWith(grammar) ==
    /\ calls < MaxCalls
    /\ grammar <= grammars + 1
    /\ calls' = calls + 1
    /\ grammars' = IF grammar > grammars THEN grammar ELSE grammars


Init ==
    /\ \/ /\ \E in \in EncodeInputs : ast_node = in[1] /\ sp = in[2]
          /\ asdl_node = Unset
       \/ /\ ast_node = Unset /\ sp = None
          /\ asdl_node \in DecodeInputs
    /\ c_node = Unset
    /\ IdleSpm /\ IdleTbl /\ IdleCache

\* an encoder that stores the one-element list of line 213 in the node
Encode_InPlace ==
    /\ ast_node # Unset /\ asdl_node = Unset
    /\ asdl_node' = c_ast_to_asdl_ast(sp, ast_node)
    /\ ast_node' = [ast_node EXCEPT !.attrs =
                       [a \in DOMAIN ast_node.attrs |->
                           IF ast_node.attrs[a].k \in {"None", "list"}
                           THEN ast_node.attrs[a]
                           ELSE List(<<ast_node.attrs[a]>>)]]
    /\ UNCHANGED <<sp, c_node, spm_vars, tbl_vars, cache_vars>>

\* converter.c_ast_to_asdl_ast(ast_node) on an instance with subword model sp
Encode ==
    /\ ast_node # Unset /\ asdl_node = Unset
    /\ asdl_node' = c_ast_to_asdl_ast(sp, ast_node)
    /\ UNCHANGED <<ast_node, sp, c_node, spm_vars, tbl_vars, cache_vars>>

\* converter.asdl_ast_to_c_ast(asdl_node)
Decode ==
    /\ asdl_node.k = "asdl" /\ c_node = Unset
    /\ c_node' = asdl_ast_to_c_ast(asdl_node)
    /\ UNCHANGED <<ast_node, sp, asdl_node, spm_vars, tbl_vars, cache_vars>>

\* the module-level c_ast_to_asdl_ast(ast_node, grammar)
ModuleEncode(grammar) ==
    /\ ast_node # Unset /\ asdl_node = Unset /\ sp = None
    /\ CallWith(grammar)
    /\ LET got == _get_converter_instance(cache, grammar)
       IN /\ cache' = got.cache
          /\ last_call' = [grammar |-> grammar, constructed |-> got.constructed,
                           result |-> got.result]
          /\ asdl_node' = c_ast_to_asdl_ast(got.result.sp, ast_node)
    /\ UNCHANGED <<ast_node, sp, c_node, spm_vars, tbl_vars>>

\* the module-level asdl_ast_to_c_ast(asdl_node, grammar)
ModuleDecode(grammar) ==
    /\ asdl_node.k = "asdl" /\ c_node = Unset /\ sp = None
    /\ CallWith(grammar)
    /\ LET got == _get_converter_instance(cache, grammar)
       IN /\ cache' = got.cache
          /\ last_call' = [grammar |-> grammar, constructed |-> got.constructed,
                           result |-> got.result]
          /\ c_node' = asdl_ast_to_c_ast(asdl_node)
    /\ UNCHANGED <<ast_node, sp, asdl_node, spm_vars, tbl_vars>>

Next ==
    \/ Encode
    \/ Decode
    \/ \E grammar \in 1..NumGrammars : ModuleEncode(grammar)
    \/ \E grammar \in 1..NumGrammars : ModuleDecode(grammar)

Spec == Init /\ [][Next]_vars

-----------------------------------------------------------------------------
(* What a native AST and a grammar tree hold, read off the trees           *)
(* themselves.                                                             *)

Composite(n) == n.ctor \in DOMAIN CompositeProductions

\* the values of attribute `field` of node n: none for None, the elements
\* of a list, the value itself otherwise
AttrValues(n, field) ==
    LET v == n.attrs[field.name]
    IN IF v.k = "None" THEN {}
       ELSE IF field.cardinality = "multiple"
            THEN {v.items[i] : i \in 1..Len(v.items)}
            ELSE {v}

FieldsOf(n) ==
    IF Composite(n)
    THEN {CompositeProductions[n.ctor][i] :
             i \in 1..Len(CompositeProductions[n.ctor])}
    ELSE {}

RECURSIVE SubNodes(_)
\* n and every node below it
SubNodes(n) ==
    {n} \cup UNION {UNION {SubNodes(c) : c \in AttrValues(n, f)} :
                    f \in {g \in FieldsOf(n) : g.type = "EXPR"}}

IsTerminalType(type) == type \notin {"EXPR", "IDENT", "STR"}

AllHaveProductions(N) == \A n \in SubNodes(N) : Composite(n)

TerminalsInTables(N) ==
    \A n \in SubNodes(N) : \A f \in FieldsOf(n) :
        IsTerminalType(f.type) =>
            \A v \in AttrValues(n, f) :
                \E i \in 1..Len(C_TO_ASDL_TERMINAL_MAP[f.type]) :
                    C_TO_ASDL_TERMINAL_MAP[f.type][i][1] = v.t

\* some node has None on a field whose cardinality is in cards
HasNoneOn(N, cards) ==
    \E n \in SubNodes(N) : \E f \in FieldsOf(n) :
        f.cardinality \in cards /\ n.attrs[f.name].k = "None"

CanonicalLiteralTypes == {"int", "double", "char", "string"}

LiteralTypesCanonical(N) ==
    \A n \in SubNodes(N) : \A f \in FieldsOf(n) :
        f.type = "LITERAL_TYPE" =>
            \A v \in AttrValues(n, f) : v.t \in CanonicalLiteralTypes

ValuesOf(rf) == {rf.values[i] : i \in 1..Len(rf.values)}
RealizedFields(t) == {t.fields[i] : i \in 1..Len(t.fields)}

RECURSIVE SubTrees(_)
\* t and every composite grammar tree below it
SubTrees(t) ==
    {t} \cup UNION {UNION {SubTrees(c) : c \in ValuesOf(rf)} :
                    rf \in {g \in RealizedFields(t) : g.type = "EXPR"}}

HasUnknownCtor(T) ==
    \E t \in SubTrees(T) : \E rf \in RealizedFields(t) :
        /\ rf.type \in TerminalGroups
        /\ \E v \in ValuesOf(rf) :
               \A i \in 1..Len(ASDL_TO_C_TERMINAL_MAP[rf.type]) :
                   ASDL_TO_C_TERMINAL_MAP[rf.type][i][1] # v.prod

HasCardinalityViolation(T) ==
    \E t \in SubTrees(T) : \E rf \in RealizedFields(t) :
        \/ rf.cardinality = "single" /\ Len(rf.values) # 1
        \/ rf.cardinality = "optional" /\ Len(rf.values) > 1

HasEmptyPiece(T) ==
    \E t \in SubTrees(T) : \E rf \in RealizedFields(t) :
        /\ rf.type \in {"IDENT", "STR"}
        /\ \E v \in ValuesOf(rf) :
               /\ v.prod \in {"IdentSubword", "StrSubword"}
               /\ \E p \in ValuesOf([values |-> v.fields[1].values[1].items]) :
                      p = <<>>

AllHaveClasses(T) == \A t \in SubTrees(T) : t.prod \in AVAILABLE_NODES

Encoded == ast_node # Unset /\ asdl_node # Unset
Decoded == c_node # Unset

-----------------------------------------------------------------------------
(* Claims about the converter.                                             *)

\* C1 as stated: without a subword model, every native AST whose nodes have
\* productions and whose terminal values are keys of their forward table is
\* encoded to a tree that decodes to an equal native AST.
C1_RoundTripAsStated ==
    (/\ Encoded /\ sp.k = "None"
     /\ AllHaveProductions(ast_node) /\ TerminalsInTables(ast_node)) =>
        /\ ~IsRaise(asdl_node)
        /\ Decoded => c_node = ast_node

\* C1, amended: the same, for native ASTs that also have None only on
\* 'optional' fields and only canonical LITERAL_TYPE spellings.
C1_RoundTrip ==
    (/\ Encoded /\ sp.k = "None"
     /\ AllHaveProductions(ast_node) /\ TerminalsInTables(ast_node)
     /\ ~HasNoneOn(ast_node, {"single", "multiple"})
     /\ LiteralTypesCanonical(ast_node)) =>
        /\ ~IsRaise(asdl_node)
        /\ Decoded => c_node = ast_node

\* a list of two children, one with None on an optional field and an empty
\* and a two-element terminal list, has come back
C1_Witness ==
    /\ Encoded /\ Decoded /\ sp.k = "None"
    /\ ast_node.ctor = "Compound"
    /\ ast_node.attrs.block_items.k = "list"
    /\ Len(ast_node.attrs.block_items.items) = 2
    /\ \E i \in 1..2 :
           LET c == ast_node.attrs.block_items.items[i]
           IN c.ctor = "TypeDecl" /\ c.attrs.declname.k = "None"
              /\ c.attrs.quals.k = "list" /\ Len(c.attrs.quals.items) = 2
    /\ \E i \in 1..2 :
           LET c == ast_node.attrs.block_items.items[i]
           IN c.ctor = "Constant" /\ c.attrs.type.t = "int"
    /\ c_node = ast_node

\* the string s has no marker and its words are separated by single spaces
SingleSpaced(s) ==
    \A i \in 1..Len(s) :
        /\ s[i] # SPM_BOS_TOKEN
        /\ s[i] = " " => (i > 1 /\ i < Len(s) /\ s[i + 1] # " ")

\* the identifier or string the root node holds
HeldString(n) ==
    IF n.ctor = "ID" THEN n.attrs.name ELSE n.attrs.value

\* C2: with a subword model, a string without marker whose words are
\* separated by single spaces, segmented in any way the model may segment
\* it, is decoded from its subword leaf to the same string.
C2_SubwordRoundTrip ==
    (/\ Encoded /\ sp.k = "sp"
     /\ ast_node.ctor \in {"ID", "Constant"}
     /\ TerminalsInTables(ast_node)
     /\ HeldString(ast_node).k = "str"
     /\ HeldString(ast_node).s = sp.str
     /\ SingleSpaced(sp.str)) =>
        /\ ~IsRaise(asdl_node)
        /\ Decoded => (~IsRaise(c_node) /\ HeldString(c_node) = Str(sp.str))

\* a two-word string cut into marker-only and continuation pieces
C2_Witness ==
    /\ Encoded /\ Decoded /\ sp.k = "sp"
    /\ ast_node = Node("ID", [name |-> Str(<<"a", " ", "a">>)])
    /\ sp.str = <<"a", " ", "a">>
    /\ sp.seg = << <<"M">>, <<"a">>, <<"M", "a">> >>
    /\ c_node = ast_node

\* the root node's attribute for the i-th field of its production
RootAttr(i) == ast_node.attrs[CompositeProductions[ast_node.ctor][i].name]
RootCardinality(i) == CompositeProductions[ast_node.ctor][i].cardinality
RootFieldIndexes ==
    IF Composite(ast_node) THEN 1..Len(CompositeProductions[ast_node.ctor])
    ELSE {}

DecodedValue(rf, v) ==
    IF rf.type = "EXPR" THEN asdl_ast_to_c_ast(v)
    ELSE IF rf.type \in {"IDENT", "STR"}
    THEN IF v.prod \in {"IdentToken", "StrToken"} THEN v.fields[1].values[1]
         ELSE Str(JoinWords(spm_decode(v.fields[1].values[1].items).v))
    ELSE Tok((CHOOSE pair \in ValuesOf([values |-> ASDL_TO_C_TERMINAL_MAP[rf.type]]) :
                 pair[1] = v.prod)[2])

\* C5: the decoder reshapes the values of each realized field by the
\* cardinality: 'single' gives the one value and fails for any other
\* number of values, 'optional' gives None for no value, the value for one
\* and fails for more, 'multiple' gives the list of all values in order.
C5_Reshape ==
    (asdl_node.k = "asdl" /\ Decoded) =>
        \A i \in 1..Len(asdl_node.fields) :
            LET rf == asdl_node.fields[i]
                n == Len(rf.values)
            IN /\ (rf.cardinality = "single" /\ n # 1) => IsRaise(c_node)
               /\ (rf.cardinality = "optional" /\ n > 1) => IsRaise(c_node)
               /\ ~IsRaise(c_node) =>
                     LET attr == c_node.attrs[rf.name]
                     IN /\ (rf.cardinality = "single") =>
                               attr = DecodedValue(rf, rf.values[1])
                        /\ (rf.cardinality = "optional" /\ n = 0) =>
                               attr = None
                        /\ (rf.cardinality = "optional" /\ n = 1) =>
                               attr = DecodedValue(rf, rf.values[1])
                        /\ (rf.cardinality = "multiple") =>
                               /\ attr.k = "list"
                               /\ Len(attr.items) = n
                               /\ \A j \in 1..n :
                                      attr.items[j] =
                                          DecodedValue(rf, rf.values[j])

\* an 'optional' field without value and a 'multiple' field with two
\* values in order have been decoded
C5_Witness ==
    /\ ast_node = Unset /\ Decoded /\ ~IsRaise(c_node)
    /\ asdl_node.prod = "TypeDecl"
    /\ asdl_node.fields[1].values = <<>>
    /\ Len(asdl_node.fields[2].values) = 2
    /\ c_node.attrs.declname = None
    /\ c_node.attrs.quals = List(<<Tok("volatile"), Tok("const")>>)

\* C7: a terminal lookup has no default.  A native token that is no key of
\* the forward table of its field type makes the encoding fail, and a
\* constructor name that is no key of the reverse table makes the decoding
\* fail; the call returns no tree or node, and the error is the missing-key
\* error when the input has no other fault.
C7_NoDefault ==
    /\ (Encoded /\ ~TerminalsInTables(ast_node)) =>
           /\ IsRaise(asdl_node)
           /\ ~HasNoneOn(ast_node, {"single"}) => asdl_node.err = "KeyError"
    /\ (asdl_node.k = "asdl" /\ Decoded /\ HasUnknownCtor(asdl_node)) =>
           /\ IsRaise(c_node)
           /\ (~HasCardinalityViolation(asdl_node) /\ ~HasEmptyPiece(asdl_node))
                  => c_node.err = "KeyError"

\* the decoder met the constructor ConstDim in a QUAL field
C7_Witness ==
    /\ ast_node = Unset /\ Decoded
    /\ asdl_node.prod = "TypeDecl"
    /\ asdl_node.fields[2].values = <<Terminal("ConstDim")>>
    /\ Len(asdl_node.fields[1].values) <= 1
    /\ c_node = Raise("KeyError")

\* the values of attribute `field` of node n, in order
AttrList(n, field) ==
    LET v == n.attrs[field.name]
    IN IF v.k = "None" THEN <<>>
       ELSE IF field.cardinality = "multiple" THEN v.items ELSE <<v>>

RECURSIVE CompleteTree(_, _)
\* t is a whole grammar tree for the native node n: the production of n,
\* a realized field per field of the production with a value per value of
\* the attribute, and a whole tree per child node
CompleteTree(t, n) ==
    /\ t.k = "asdl" /\ t.prod = n.ctor
    /\ Composite(n)
    /\ Len(t.fields) = Len(CompositeProductions[n.ctor])
    /\ \A i \in 1..Len(t.fields) :
           LET f == CompositeProductions[n.ctor][i]
               vs == AttrList(n, f)
           IN /\ t.fields[i].name = f.name
              /\ Len(t.fields[i].values) = Len(vs)
              /\ f.type = "EXPR" =>
                     \A j \in 1..Len(vs) :
                         CompleteTree(t.fields[i].values[j], vs[j])

RECURSIVE CompleteNode(_, _)
\* c is a whole native node for the grammar tree t
CompleteNode(c, t) ==
    /\ c.k = "node" /\ c.ctor = t.prod
    /\ DOMAIN c.attrs = {t.fields[i].name : i \in 1..Len(t.fields)}
    /\ \A i \in 1..Len(t.fields) :
           LET rf == t.fields[i]
               vs == AttrList(c, rf)
           IN rf.type = "EXPR" =>
                  /\ Len(vs) = Len(rf.values)
                  /\ \A j \in 1..Len(vs) : CompleteNode(vs[j], rf.values[j])

\* C9: a conversion call leaves its input as it was, whether it succeeds or
\* fails at some nested field; what it returns is an exception or a whole
\* tree (node), never a part of one; besides its output a call changes
\* nothing but the cache of converter instances, and only the module-level
\* functions change that.
C9_Frame ==
    [][/\ ast_node' = ast_node
       /\ sp' = sp
       /\ asdl_node.k = "asdl" => asdl_node' = asdl_node
       /\ c_node # Unset => c_node' = c_node
       /\ asdl_node' # asdl_node =>
              (IsRaise(asdl_node') \/ CompleteTree(asdl_node', ast_node))
       /\ c_node' # c_node =>
              (IsRaise(c_node') \/ CompleteNode(c_node', asdl_node))
       /\ UNCHANGED <<spm_vars, tbl_vars>>
       /\ cache' # cache =>
              \E grammar \in 1..NumGrammars :
                  ModuleEncode(grammar) \/ ModuleDecode(grammar)
      ]_vars

\* an encoding failed below the root, at the second child of a list, and
\* the caller's AST is in place
C9_Witness ==
    /\ Encoded /\ IsRaise(asdl_node)
    /\ ast_node.ctor = "Compound"
    /\ ast_node.attrs.block_items.k = "list"
    /\ Len(ast_node.attrs.block_items.items) = 2
    /\ ~IsRaise(c_ast_to_asdl_ast(sp, ast_node.attrs.block_items.items[1]))
    /\ IsRaise(c_ast_to_asdl_ast(sp, ast_node.attrs.block_items.items[2]))

-----------------------------------------------------------------------------
(* The cache under any sequence of calls over NumGrammars grammars.        *)

InitCache ==
    /\ IdleCache
    /\ IdleSpm /\ IdleTbl /\ IdleConv

\* _get_converter_instance(grammar), as the module-level functions call it
GetConverterInstance(grammar) ==
    /\ CallWith(grammar)
    /\ LET got == _get_converter_instance(cache, grammar)
       IN /\ cache' = got.cache
          /\ last_call' = [grammar |-> grammar, constructed |-> got.constructed,
                           result |-> got.result]
    /\ UNCHANGED <<spm_vars, tbl_vars, conv_vars>>

NextCache == \E grammar \in 1..NumGrammars : GetConverterInstance(grammar)

SpecCache == InitCache /\ [][NextCache]_vars

\* C10: the cache never holds more than 8 instances, holds at most one per
\* grammar, each bound to the grammar of its key and without subword model;
\* a call for a cached grammar returns the cached instance and constructs
\* none; a call for a grammar missing from a full cache drops the least
\* recently used entry and puts in a new instance for the grammar.
C10_Cache ==
    /\ [](/\ Len(cache) <= 8
          /\ \A i, j \in 1..Len(cache) : cache[i].key = cache[j].key => i = j
          /\ \A i \in 1..Len(cache) :
                 /\ cache[i].value.grammar = cache[i].key
                 /\ cache[i].value.sp = None)
    /\ [][LET g == last_call'.grammar
          IN /\ (\E i \in 1..Len(cache) : cache[i].key = g) =>
                    /\ ~last_call'.constructed
                    /\ \E i \in 1..Len(cache) :
                           /\ cache[i].key = g
                           /\ last_call'.result = cache[i].value
                           /\ cache'[Len(cache')] = cache[i]
                    /\ CachedGrammars(cache') = CachedGrammars(cache)
             /\ (Len(cache) = 8 /\ \A i \in 1..Len(cache) : cache[i].key # g) =>
                    /\ last_call'.constructed
                    /\ CachedGrammars(cache') =
                           (CachedGrammars(cache) \ {cache[1].key}) \cup {g}
                    /\ cache'[Len(cache')] =
                           [key |-> g, value |-> [grammar |-> g, sp |-> None]]
                    /\ SubSeq(cache', 1, 7) = SubSeq(cache, 2, 8)
         ]_vars

\* a call has dropped grammar 1 from a full cache
C10_Witness ==
    /\ Len(cache) = 8
    /\ last_call # Unset /\ last_call.constructed
    /\ 1 \notin CachedGrammars(cache)
    /\ cache[8].key = 9

====
